---------------------------- MODULE Spec2Model ----------------------------
(***************************************************************************)
(* A model of os2mo-sdtool-plus: the interval/timeline algebra, the org    *)
(* unit timeline reconciler (sync_ou) with the MO mutator functions, the   *)
(* address sync, the SD-to-MO tree differ and the run gate around          *)
(* POST /trigger.                                                          *)
(*                                                                         *)
(* Time is counted in whole days 0 .. MaxDay; POSITIVE_INFINITY is the     *)
(* instant after the last day.  MO (the downstream store) keeps, per unit, *)
(* one registration per day; day MaxDay stands for every day from MaxDay   *)
(* on, so a validity with to = None reaches it.                            *)
(***************************************************************************)
EXTENDS Integers, Sequences, FiniteSets, TLC

\* ------------------------------------------------------------------ bounds
MaxDay == 1
MaxTriggers == 2
MaxOps == 2
MaxUnits == 3
MaxInstant == 3
MaxLen == 3

\* ------------------------------------------------------------- value sets
None == <<>>
Some(x) == <<x>>
Days == 0 .. MaxDay
POSITIVE_INFINITY == MaxDay + 1
\* The first day is the earliest instant that can be represented
NEGATIVE_INFINITY == 0

UnitNames == {"n1", "n2"}
UnitParents == {"p1", "p2"}
UnitIds == {"dep"}
UnitLevels == {"NY1"}
HierarchyClasses == {"h1", "h2"}
TimePlannings == {"tp1"}

VARIABLES
    \* sync_ou (sdtoolplus/timeline.py)
    sd_unit_timeline,   \* the SD (source) UnitTimeline of the unit
    mo_unit_timeline,   \* the MO UnitTimeline read before sync_ou is called
    mo,                 \* MO's registrations of the unit: day -> None | Some(registration)
    mo_before,          \* MO's registrations when the current operation started
    endpoints,          \* sync_ou: the sorted endpoint list
    k,                  \* sync_ou: index of the current endpoint pair
    sync_pc,            \* "idle" | "loop" | "done"
    run,                \* number of the current sync run
    dry_run,            \* the dry_run argument
    mutations,          \* the mutations sent to MO in the current run, in order
    upd,                \* update_ou called on its own: [start, end] or None
    \* address sync (sdtoolplus/addresses.py)
    sd_addr,            \* unit -> type -> None | Some(SD address name)
    cleanse_ok,         \* unit -> whether DAR cleansing of the postal address succeeds
    mo_addr,            \* MO addresses: unit -> type -> set of [uuid, value]
    addr_pos,           \* [phase, i]: position in fix_addresses
    addr_ops,           \* operations yielded to the observer
    addr_mutations,     \* address mutations sent to MO
    \* run gate (sdtoolplus/main.py) and App.execute (sdtoolplus/app.py)
    rundb,              \* the rundb table: sequence of [status, by, executed]
    trig,               \* trigger -> [pc, dry, inst, op, resp]
    plan,               \* the operation stream the tree diff executor yields
    settings,           \* SDToolPlusSettings: [apply_ny_logic]
    apply_calls,        \* trigger -> the apply-NY-logic calls it made: [inst, op]
    emitted,            \* trigger -> the operations yielded to the observer: [inst, op]
    executed,           \* trigger -> the mutations executed against MO: [inst, op]
    \* tree differ (sdtoolplus/diff_org_trees.py)
    sd_tree,            \* SD tree: unit -> None | Some([parent, name])
    mo_tree,            \* MO tree: unit -> None | Some([parent, name])
    mo_tree_before,     \* the MO tree the differ compared
    tree_ops,           \* the operation stream of the differ
    tree_pos,           \* number of operations applied
    \* interval/timeline algebra (sdtoolplus/models.py)
    tl_values,          \* the keyword arguments of Interval(...): [start, end, value]
    tl_intervals,       \* a tuple of intervals: the argument of Timeline(...) / combine_intervals
    tl_them,            \* a second tuple of intervals: the argument of diff or of a second call
    tl_timestamp,       \* the argument of entity_at
    tl_called,          \* "off" | "none" | the name of the function that was called
    tl_ret              \* what the call returned or raised

syncVars == <<sd_unit_timeline, mo_unit_timeline, mo, mo_before, endpoints, k,
              sync_pc, run, dry_run, mutations, upd>>
addrVars == <<sd_addr, cleanse_ok, mo_addr, addr_pos, addr_ops, addr_mutations>>
gateVars == <<rundb, trig, plan, settings, apply_calls, emitted, executed>>
treeVars == <<sd_tree, mo_tree, mo_tree_before, tree_ops, tree_pos>>
algVars == <<tl_values, tl_intervals, tl_them, tl_timestamp, tl_called, tl_ret>>
vars == <<syncVars, addrVars, gateVars, treeVars, algVars>>

\* ------------------------------------------------------------- sequences
Max(S) == CHOOSE x \in S : \A y \in S : y <= x
Min(S) == CHOOSE x \in S : \A y \in S : x <= y

RECURSIVE SortedSeq(_)
SortedSeq(S) == IF S = {} THEN <<>> ELSE <<Min(S)>> \o SortedSeq(S \ {Min(S)})

Last(s) == s[Len(s)]
Front(s) == SubSeq(s, 1, Len(s) - 1)

\* --------------------------------------------- sdtoolplus/models.py
Interval(start, end, value) == [start |-> start, end |-> end, value |-> value]

\* A combine_intervals that leaves its argument as it is
combine_intervals_nothing(intervals) == intervals

\* A combine_intervals that merges an interval with its successor and goes on
\* after the pair
RECURSIVE combine_intervals_pairs(_)
combine_intervals_pairs(intervals) ==
    IF Len(intervals) <= 1 THEN intervals
    ELSE LET i1 == intervals[1]
             i2 == intervals[2]
         IN IF i1.end < i2.start \/ i1.value # i2.value
            THEN <<i1>> \o combine_intervals_pairs(Tail(intervals))
            ELSE <<[start |-> i1.start, end |-> i2.end, value |-> i1.value]>>
                 \o combine_intervals_pairs(SubSeq(intervals, 3, Len(intervals)))

\* combine_intervals: split_when(i1.end < i2.start or i1.value != i2.value),
\* each group replaced by first(group) with end = last(group).end
RECURSIVE combine_intervals(_)
combine_intervals(intervals) ==
    IF Len(intervals) <= 1 THEN intervals
    ELSE LET head == combine_intervals(Front(intervals))
             i1 == intervals[Len(intervals) - 1]
             g == Last(head)
             i2 == Last(intervals)
         IN IF i1.end < i2.start \/ i1.value # i2.value
            THEN Append(head, i2)
            ELSE Append(Front(head), Interval(g.start, i2.end, g.value))

\* Timeline validators: sorted starts, no overlap, no touching equal values
intervals_must_be_sorted(v) ==
    \A i \in 1 .. Len(v) - 1 : v[i].start <= v[i + 1].start
intervals_cannot_overlap(v) ==
    \A i \in 1 .. Len(v) - 1 : v[i].end <= v[i + 1].start
successively_repeated_interval_values_not_allowed(v) ==
    \A i \in 1 .. Len(v) - 1 : v[i].end = v[i + 1].start => v[i].value # v[i + 1].value
Timeline(v) ==
    /\ intervals_must_be_sorted(v)
    /\ intervals_cannot_overlap(v)
    /\ successively_repeated_interval_values_not_allowed(v)

\* An entity_at that takes the end of an interval as part of it
entity_at_end_included(intervals, timestamp) ==
    SelectSeq(intervals, LAMBDA e : e.start <= timestamp /\ timestamp <= e.end)

\* Timeline.entity_at: the intervals with start <= timestamp < end; the empty
\* sequence stands for NoValueError
entity_at(intervals, timestamp) ==
    SelectSeq(intervals, LAMBDA e : e.start <= timestamp /\ timestamp < e.end)
NoValueError(entity) == entity = <<>>

UnitTimeline(active, name, unit_id, unit_level, parent) ==
    [active |-> active, name |-> name, unit_id |-> unit_id,
     unit_level |-> unit_level, parent |-> parent]

has_value(self, timestamp) ==
    /\ ~NoValueError(entity_at(self.active, timestamp))
    /\ ~NoValueError(entity_at(self.name, timestamp))
    /\ ~NoValueError(entity_at(self.unit_id, timestamp))
    /\ ~NoValueError(entity_at(self.unit_level, timestamp))
    /\ ~NoValueError(entity_at(self.parent, timestamp))

equal_at(self, timestamp, other) ==
    IF has_value(self, timestamp) = has_value(other, timestamp)
    THEN IF ~has_value(self, timestamp) THEN TRUE
         ELSE /\ entity_at(self.active, timestamp) = entity_at(other.active, timestamp)
              /\ entity_at(self.name, timestamp) = entity_at(other.name, timestamp)
              /\ entity_at(self.unit_id, timestamp) = entity_at(other.unit_id, timestamp)
              /\ entity_at(self.unit_level, timestamp) = entity_at(other.unit_level, timestamp)
              /\ entity_at(self.parent, timestamp) = entity_at(other.parent, timestamp)
    ELSE FALSE

\* ------------------------------------------------- MO, the downstream store
\* A registration of the unit on one day.
Registration(name, user_key, org_unit_level, parent, org_unit_hierarchy, time_planning) ==
    [name |-> name, user_key |-> user_key, org_unit_level |-> org_unit_level,
     parent |-> parent, org_unit_hierarchy |-> org_unit_hierarchy,
     time_planning |-> time_planning]

RAValidityInput(from_, to) == [from_ |-> from_, to |-> to]

\* The days a validity (from, to) covers; to = None is open-ended and
\* from = None starts at the beginning of time.
ValidityDays(from_, to) ==
    {d \in Days : /\ (from_ # None => from_[1] <= d)
                  /\ (to # None => d <= to[1])}

\* The validities MO returns for the unit: the maximal runs of days with the
\* same registration, in order, each with its inclusive end date (None when
\* the run is open-ended).
RunEnd(m, s) == Max({e \in s .. MaxDay : \A d \in s .. e : m[d] = m[s]})
RunStarts(m) == {s \in Days : m[s] # None /\ (s = 0 \/ m[s - 1] # m[s])}
Validities(m) ==
    LET starts == SortedSeq(RunStarts(m))
    IN [i \in 1 .. Len(starts) |->
          [validity |-> RAValidityInput(starts[i],
                          IF RunEnd(m, starts[i]) = MaxDay THEN None
                          ELSE Some(RunEnd(m, starts[i]))),
           obj |-> m[starts[i]][1]]]

\* get_org_unit_timeline(unit_uuid, from_date, to_date): the validities that
\* overlap [from_date, to_date]; the empty sequence stands for no objects.
get_org_unit_timeline(m, from_date, to_date) ==
    SelectSeq(Validities(m),
              LAMBDA v : ValidityDays(Some(v.validity.from_), v.validity.to)
                           \cap ValidityDays(from_date, to_date) # {})

\* create_org_unit: the unit is registered on the days of the validity.
create_org_unit(m, input) ==
    [d \in Days |->
        IF d \in ValidityDays(Some(input.validity.from_), input.validity.to)
        THEN Some(Registration(input.name, input.user_key, input.org_unit_level,
                               input.parent, None, None))
        ELSE m[d]]

\* update_org_unit: on the days of the validity the given fields are written;
\* a field sent as None is left as it is (None on a day without registration).
update_org_unit(m, input) ==
    [d \in Days |->
        IF d \in ValidityDays(Some(input.validity.from_), input.validity.to)
        THEN LET old == IF m[d] = None
                        THEN Registration(None, None, None, None, None, None)
                        ELSE m[d][1]
             IN Some(Registration(
                    input.name, input.user_key, input.org_unit_level, input.parent,
                    IF input.org_unit_hierarchy = None THEN old.org_unit_hierarchy
                    ELSE input.org_unit_hierarchy,
                    IF input.time_planning = None THEN old.time_planning
                    ELSE input.time_planning))
        ELSE m[d]]

\* terminate_org_unit: with from_ the unit is removed on [from_, to]; without
\* from_ ("terminate at") it is removed on every day after to.
terminate_org_unit(m, payload) ==
    [d \in Days |->
        IF payload.from_ # None
        THEN IF payload.from_[1] <= d /\ d <= payload.to THEN None ELSE m[d]
        ELSE IF d > payload.to THEN None ELSE m[d]]

\* --------------------------------------------- sdtoolplus/mo/timeline.py
_mo_end_datetime(d) == IF d # None THEN d[1] + 1 ELSE POSITIVE_INFINITY

_get_mo_validity(start, end) ==
    RAValidityInput(start, IF end = POSITIVE_INFINITY THEN None ELSE Some(end - 1))

\* get_ou_timeline: five interval tuples built from MO's validities, each
\* passed through combine_intervals
MemberValue(obj, member) ==
    CASE member = "active" -> TRUE
      [] member = "name" -> obj.name
      [] member = "unit_id" -> obj.user_key
      [] member = "unit_level" -> obj.org_unit_level
      [] member = "parent" -> obj.parent
MemberIntervals(validities, member) ==
    [i \in 1 .. Len(validities) |->
        Interval(validities[i].validity.from_,
                 _mo_end_datetime(validities[i].validity.to),
                 MemberValue(validities[i].obj, member))]
get_ou_timeline(m) ==
    LET validities == get_org_unit_timeline(m, None, None)
    IN UnitTimeline(
         combine_intervals(MemberIntervals(validities, "active")),
         combine_intervals(MemberIntervals(validities, "name")),
         combine_intervals(MemberIntervals(validities, "unit_id")),
         combine_intervals(MemberIntervals(validities, "unit_level")),
         combine_intervals(MemberIntervals(validities, "parent")))

\* The fields create_ou and update_ou take from the SD timeline at start
OrganisationUnitInput(start, end, sd, org_unit_hierarchy, time_planning) ==
    [validity |-> _get_mo_validity(start, end),
     name |-> entity_at(sd.name, start)[1].value,
     user_key |-> entity_at(sd.unit_id, start)[1].value,
     parent |-> entity_at(sd.parent, start)[1].value,
     org_unit_level |-> entity_at(sd.unit_level, start)[1].value,
     org_unit_hierarchy |-> org_unit_hierarchy,
     time_planning |-> time_planning]

\* create_ou: the mutations it sends
create_ou(m, start, end, sd) ==
    << [op |-> "create", input |-> OrganisationUnitInput(start, end, sd, None, None)] >>

\* update_ou: one update per validity MO holds over the period, each for the
\* whole period and carrying that validity's hierarchy and time planning; a
\* single plain update when MO holds none.
update_ou(m, start, end, sd) ==
    LET mo_validity == _get_mo_validity(start, end)
        ou == get_org_unit_timeline(m, Some(mo_validity.from_), mo_validity.to)
    IN IF ou # <<>>
       THEN [i \in 1 .. Len(ou) |->
               [op |-> "update",
                input |-> OrganisationUnitInput(start, end, sd,
                              ou[i].obj.org_unit_hierarchy, ou[i].obj.time_planning)]]
       ELSE << [op |-> "update", input |-> OrganisationUnitInput(start, end, sd, None, None)] >>

\* A terminate_ou that sends the "terminate at" payload whatever the end is
terminate_ou_always_at(m, start, end) ==
    << [op |-> "terminate",
        input |-> [from_ |-> None, to |-> _get_mo_validity(start, end).from_ - 1]] >>

\* terminate_ou: the terminate payload
terminate_ou(m, start, end) ==
    LET mo_validity == _get_mo_validity(start, end)
    IN IF mo_validity.to # None
       THEN << [op |-> "terminate",
                input |-> [from_ |-> Some(mo_validity.from_), to |-> mo_validity.to[1]]] >>
       ELSE << [op |-> "terminate",
                input |-> [from_ |-> None, to |-> mo_validity.from_ - 1]] >>

\* MO after the mutations of a sequence have been executed in order
ExecuteMutation(m, mutation) ==
    CASE mutation.op = "create" -> create_org_unit(m, mutation.input)
      [] mutation.op = "update" -> update_org_unit(m, mutation.input)
      [] mutation.op = "terminate" -> terminate_org_unit(m, mutation.input)
RECURSIVE ExecuteMutations(_, _)
ExecuteMutations(m, ms) ==
    IF ms = <<>> THEN m
    ELSE ExecuteMutations(ExecuteMutation(m, ms[1]), Tail(ms))

\* ------------------------------------------------ sdtoolplus/timeline.py
Endpoints(intervals) ==
    {intervals[i].start : i \in 1 .. Len(intervals)}
        \cup {intervals[i].end : i \in 1 .. Len(intervals)}

_get_ou_interval_endpoints(ou_timeline) ==
    Endpoints(ou_timeline.active) \cup Endpoints(ou_timeline.name)
        \cup Endpoints(ou_timeline.unit_id) \cup Endpoints(ou_timeline.unit_level)

\* The body of sync_ou's loop for one endpoint pair: the mutations it sends.
\* sync_ou takes a dry_run argument and does not read it.
sync_ou_pair(m, sd, mo_tl, start, end) ==
    IF equal_at(sd, start, mo_tl) THEN <<>>
    ELSE IF has_value(sd, start)
         THEN IF get_org_unit_timeline(m, None, None) # <<>>
              THEN update_ou(m, start, end, sd)
              ELSE create_ou(m, start, end, sd)
         ELSE terminate_ou(m, start, end)

\* The days of a period [start, end)
PeriodDays(p) == {d \in Days : p[1] <= d /\ (d < p[2] \/ p[2] = POSITIVE_INFINITY)}

\* ------------------------------------------------------ inputs of a sync
\* The timeline of a day-indexed history h: day -> None | Some(value)
TimelineOf(h) ==
    LET starts == SortedSeq(RunStarts(h))
    IN [i \in 1 .. Len(starts) |->
          Interval(starts[i], RunEnd(h, starts[i]) + 1, h[starts[i]][1])]

Option(S) == {None} \cup {Some(x) : x \in S}

\* SD reports a department history (name, identifier and level per day) and
\* a parent history; the four department members share their support.
Present(h, v) == [d \in Days |-> IF h[d] = None THEN None ELSE Some(v)]
SDUnitTimelines ==
    {UnitTimeline(TimelineOf(Present(dep, TRUE)), TimelineOf(dep),
                  TimelineOf(Present(dep, id)), TimelineOf(Present(dep, lvl)),
                  TimelineOf(par)) :
        dep \in [Days -> Option(UnitNames)], par \in [Days -> Option(UnitParents)],
        id \in UnitIds, lvl \in UnitLevels}

\* MO's registrations of a unit that no hierarchy or time planning was set on
MOPlainStates ==
    [Days -> Option({Registration(n, id, lvl, p, None, None) :
                        n \in UnitNames, id \in UnitIds, lvl \in UnitLevels,
                        p \in UnitParents})]

\* ------------------------------------------------------------ idle parts
SyncIdle ==
    /\ sd_unit_timeline = UnitTimeline(<<>>, <<>>, <<>>, <<>>, <<>>)
    /\ mo_unit_timeline = UnitTimeline(<<>>, <<>>, <<>>, <<>>, <<>>)
    /\ mo = [d \in Days |-> None]
    /\ mo_before = [d \in Days |-> None]
    /\ endpoints = <<>>
    /\ k = 0
    /\ sync_pc = "off"
    /\ run = 0
    /\ mutations = <<>>
    /\ upd = None
AddrIdle ==
    /\ sd_addr = <<>>
    /\ cleanse_ok = <<>>
    /\ mo_addr = <<>>
    /\ addr_pos = [phase |-> "off", i |-> 0]
    /\ addr_ops = <<>>
    /\ addr_mutations = <<>>
GateIdle ==
    /\ rundb = <<>>
    /\ trig = <<>>
    /\ plan = <<>>
    /\ settings = <<>>
    /\ apply_calls = <<>>
    /\ emitted = <<>>
    /\ executed = <<>>
TreeIdle ==
    /\ sd_tree = <<>>
    /\ mo_tree = <<>>
    /\ mo_tree_before = <<>>
    /\ tree_ops = <<>>
    /\ tree_pos = 0

AlgIdle ==
    /\ tl_values = <<>>
    /\ tl_intervals = <<>>
    /\ tl_them = <<>>
    /\ tl_timestamp = 0
    /\ tl_called = "off"
    /\ tl_ret = <<>>

\* ------------------------------------------------------- sync_ou, stepwise
\* The caller reads the MO timeline and calls sync_ou, which computes the
\* sorted endpoint list.
SyncStart ==
    /\ sync_pc = "idle"
    /\ mo_unit_timeline' = get_ou_timeline(mo)
    /\ endpoints' = SortedSeq(_get_ou_interval_endpoints(sd_unit_timeline)
                                \cup _get_ou_interval_endpoints(get_ou_timeline(mo)))
    /\ k' = 1
    /\ mo_before' = mo
    /\ mutations' = <<>>
    /\ sync_pc' = "loop"
    /\ UNCHANGED <<sd_unit_timeline, mo, run, dry_run, upd>>
    /\ UNCHANGED <<addrVars, gateVars, treeVars, algVars>>

\* One iteration of "for start, end in pairwise(endpoints)"; MO executes the
\* mutations it is sent.
SyncPair ==
    /\ sync_pc = "loop"
    /\ k < Len(endpoints)
    /\ LET sent == sync_ou_pair(mo, sd_unit_timeline, mo_unit_timeline,
                                endpoints[k], endpoints[k + 1])
       IN /\ mutations' = mutations \o sent
          /\ mo' = ExecuteMutations(mo, sent)
    /\ k' = k + 1
    /\ UNCHANGED <<sd_unit_timeline, mo_unit_timeline, mo_before, endpoints,
                   sync_pc, run, dry_run, upd>>
    /\ UNCHANGED <<addrVars, gateVars, treeVars, algVars>>

\* sync_ou returns when the pairs are exhausted.
SyncReturn ==
    /\ sync_pc = "loop"
    /\ k >= Len(endpoints)
    /\ sync_pc' = "done"
    /\ UNCHANGED <<sd_unit_timeline, mo_unit_timeline, mo, mo_before, endpoints,
                   k, run, dry_run, mutations, upd>>
    /\ UNCHANGED <<addrVars, gateVars, treeVars, algVars>>

\* The next trigger syncs the same unit again against the unchanged SD timeline.
SyncAgain ==
    /\ sync_pc = "done"
    /\ run = 1
    /\ run' = 2
    /\ sync_pc' = "idle"
    /\ mutations' = <<>>
    /\ UNCHANGED <<sd_unit_timeline, mo_unit_timeline, mo, mo_before, endpoints,
                   k, dry_run, upd>>
    /\ UNCHANGED <<addrVars, gateVars, treeVars, algVars>>

InitSync ==
    /\ sd_unit_timeline \in SDUnitTimelines
    /\ mo \in MOPlainStates
    /\ mo_unit_timeline = UnitTimeline(<<>>, <<>>, <<>>, <<>>, <<>>)
    /\ mo_before = mo
    /\ endpoints = <<>>
    /\ k = 0
    /\ sync_pc = "idle"
    /\ run = 1
    /\ dry_run = FALSE
    /\ mutations = <<>>
    /\ upd = None
    /\ AddrIdle /\ GateIdle /\ TreeIdle /\ AlgIdle

NextSync == SyncStart \/ SyncPair \/ SyncReturn \/ SyncAgain

SpecSync == InitSync /\ [][NextSync]_vars

\* MO agrees with the SD timeline on day d: the SD values where SD has a
\* value, no registration where SD has none.
MatchesAt(sd, m, d) ==
    IF has_value(sd, d)
    THEN /\ m[d] # None
         /\ m[d][1].name = entity_at(sd.name, d)[1].value
         /\ m[d][1].user_key = entity_at(sd.unit_id, d)[1].value
         /\ m[d][1].org_unit_level = entity_at(sd.unit_level, d)[1].value
         /\ m[d][1].parent = entity_at(sd.parent, d)[1].value
    ELSE m[d] = None

\* C7: when sync_ou has run to completion and MO has executed every mutation
\* it was sent, MO matches the SD timeline at every instant: SD's name, unit
\* id, unit level and parent where SD has a value, no value where SD has none.
C7_sync_ou_makes_mo_match_sd ==
    (sync_pc = "done" /\ run = 1) =>
        \A d \in Days : MatchesAt(sd_unit_timeline, mo, d)

\* C9: the sync is idempotent: the run that follows a completed run against
\* the unchanged SD timeline sends no mutation to MO.
C9_second_run_sends_nothing ==
    run = 2 => mutations = <<>>

\* The mutations sent in the step, and whether each of them is of one kind
\* and for the period [a, b)
SentInStep == SubSeq(mutations', Len(mutations) + 1, Len(mutations'))
AllOfKind(sent, op, a, b) ==
    /\ sent # <<>>
    /\ \A i \in 1 .. Len(sent) : sent[i].op = op
    /\ op # "terminate" =>
          \A i \in 1 .. Len(sent) : sent[i].input.validity = _get_mo_validity(a, b)

\* C23: for each adjacent pair (a, b) of the endpoint list sync_ou takes
\* exactly one outcome: nothing when SD equals MO at a; otherwise, when SD
\* has a value at a, an update of [a, b) if MO holds the unit somewhere in
\* [a, b) and one create of [a, b) if it holds it nowhere in [a, b);
\* otherwise one terminate of [a, b).
C23_one_outcome_per_pair ==
    [][(sync_pc = "loop" /\ k' = k + 1) =>
          LET a == endpoints[k]
              b == endpoints[k + 1]
          IN IF equal_at(sd_unit_timeline, a, mo_unit_timeline)
             THEN SentInStep = <<>>
             ELSE IF has_value(sd_unit_timeline, a)
             THEN IF \E d \in PeriodDays(<<a, b>>) : mo[d] # None
                  THEN AllOfKind(SentInStep, "update", a, b)
                  ELSE Len(SentInStep) = 1 /\ AllOfKind(SentInStep, "create", a, b)
             ELSE Len(SentInStep) = 1 /\ AllOfKind(SentInStep, "terminate", a, b)]_vars

Representable == NEGATIVE_INFINITY .. POSITIVE_INFINITY

\* C30: every validity create_ou, update_ou or terminate_ou sends for a pair
\* [a, b) of sync_ou has from <= to when to is not NULL, and the date
\* arithmetic (b - 1 day, a - 1 day for "terminate at", d + 1 day when
\* reading) stays within [NEGATIVE_INFINITY, POSITIVE_INFINITY].
C30_validities_well_formed_and_in_range ==
    [][(sync_pc = "loop" /\ k' = k + 1) =>
          /\ \A i \in 1 .. Len(Validities(mo)) :
                _mo_end_datetime(Validities(mo)[i].validity.to) \in Representable
          /\ \A i \in 1 .. Len(SentInStep) :
                LET sent == SentInStep[i]
                IN IF sent.op = "terminate"
                   THEN /\ sent.input.to \in Representable
                        /\ sent.input.from_ # None =>
                              sent.input.from_[1] <= sent.input.to
                   ELSE sent.input.validity.to # None =>
                           /\ sent.input.validity.to[1] \in Representable
                           /\ sent.input.validity.from_ <= sent.input.validity.to[1]]_vars

\* The instants where an interval of a member of a unit timeline starts or ends
AllMemberEndpoints(ou_timeline) ==
    Endpoints(ou_timeline.active) \cup Endpoints(ou_timeline.name)
        \cup Endpoints(ou_timeline.unit_id) \cup Endpoints(ou_timeline.unit_level)
        \cup Endpoints(ou_timeline.parent)

\* C27: inside every adjacent pair [a,b) of the endpoint list sync_ou uses, no
\* member timeline of SD or MO (active, name, unit_id, unit_level, parent)
\* starts or ends an interval.
C27_endpoints_partition_time ==
    sync_pc = "loop" =>
        \A i \in 1 .. Len(endpoints) - 1 :
            \A e \in AllMemberEndpoints(sd_unit_timeline)
                        \cup AllMemberEndpoints(mo_unit_timeline) :
                ~(endpoints[i] < e /\ e < endpoints[i + 1])

\* On every day either all five members of the unit timeline have a value or
\* none has
CommonSupport(ou_timeline) ==
    \A d \in Days :
        has_value(ou_timeline, d) \/
            /\ NoValueError(entity_at(ou_timeline.active, d))
            /\ NoValueError(entity_at(ou_timeline.name, d))
            /\ NoValueError(entity_at(ou_timeline.unit_id, d))
            /\ NoValueError(entity_at(ou_timeline.unit_level, d))
            /\ NoValueError(entity_at(ou_timeline.parent, d))

\* The ends MO returns: no end, or a day before the last one
MOEnds == Option(Days \ {MaxDay})

\* C25: the end rewrite of the mutator and the end rewrite of the MO reader
\* are inverse to each other: _mo_end_datetime(_get_mo_validity(s, e).to) = e
\* for every timeline end e, _get_mo_validity(s, _mo_end_datetime(d)).to = d
\* for every MO end d; and a unit timeline that sync_ou has written to an
\* empty MO is read back unchanged.
C25_read_of_write_is_identity ==
    /\ \A s \in Days : \A e \in (s + 1) .. POSITIVE_INFINITY :
          _mo_end_datetime(_get_mo_validity(s, e).to) = e
    /\ \A s \in Days : \A d \in MOEnds :
          _get_mo_validity(s, _mo_end_datetime(d)).to = d
    /\ (/\ sync_pc = "done"
        /\ run = 1
        /\ mo_before = [d \in Days |-> None]
        /\ CommonSupport(sd_unit_timeline))
          => get_ou_timeline(mo) = sd_unit_timeline

\* ---------------------------------------------------- update_ou on its own
\* MO's registrations of a unit, hierarchy and time planning included
MOStates ==
    [Days -> Option({Registration(n, id, lvl, p, h, tp) :
                        n \in {"n1"}, id \in UnitIds, lvl \in UnitLevels,
                        p \in UnitParents, h \in Option(HierarchyClasses),
                        tp \in Option(TimePlannings)})]

\* SD timelines that have a value on every day
SDFullTimelines == {sd \in SDUnitTimelines : \A d \in Days : has_value(sd, d)}

\* The periods [start, end) an update can be asked for
Periods == {<<a, b>> \in (0 .. MaxDay) \X (1 .. POSITIVE_INFINITY) : a < b}

\* update_ou(start, end, desired_unit_timeline): MO executes each update the
\* function sends, in the order of the validities.
UpdateOu ==
    /\ sync_pc = "update"
    /\ upd = None
    /\ \E p \in Periods :
          LET sent == update_ou(mo, p[1], p[2], sd_unit_timeline)
          IN /\ upd' = Some(p)
             /\ mutations' = sent
             /\ mo' = ExecuteMutations(mo, sent)
    /\ mo_before' = mo
    /\ UNCHANGED <<sd_unit_timeline, mo_unit_timeline, endpoints, k, sync_pc,
                   run, dry_run>>
    /\ UNCHANGED <<addrVars, gateVars, treeVars, algVars>>

InitUpdate ==
    /\ sd_unit_timeline \in SDFullTimelines
    /\ mo \in MOStates
    /\ mo_unit_timeline = UnitTimeline(<<>>, <<>>, <<>>, <<>>, <<>>)
    /\ mo_before = mo
    /\ endpoints = <<>>
    /\ k = 0
    /\ sync_pc = "update"
    /\ run = 1
    /\ dry_run = FALSE
    /\ mutations = <<>>
    /\ upd = None
    /\ AddrIdle /\ GateIdle /\ TreeIdle /\ AlgIdle

NextUpdate == UpdateOu

SpecUpdate == InitUpdate /\ [][NextUpdate]_vars

\* C10: after update_ou has updated [a,b), every instant of [a,b) on which MO
\* held the unit still has the hierarchy class and the time planning it had
\* before, also when the validities overlapping [a,b) carry different values.
C10_update_ou_keeps_hierarchy_and_time_planning ==
    upd # None =>
        \A d \in PeriodDays(upd[1]) :
            mo_before[d] # None =>
                /\ mo[d] # None
                /\ mo[d][1].org_unit_hierarchy = mo_before[d][1].org_unit_hierarchy
                /\ mo[d][1].time_planning = mo_before[d][1].time_planning

\* --------------------------------------------- sdtoolplus/addresses.py
POSTAL_ADDR == "AddressMailUnit"
PNUMBER_ADDR == "Pnummer"
AddressTypes == {PNUMBER_ADDR, POSTAL_ADDR}

\* The SD units that are also in MO, in the order fix_addresses visits them
AddrUnits == <<"u1", "u2">>
AddrUnitSet == {AddrUnits[i] : i \in 1 .. Len(AddrUnits)}

SDAddrNames == {"a1"}
PNumbers == {"a1", "a2"}
\* DAR's cleanse_single: the DAR uuid of an address text
cleanse_single(name) == IF name = "a1" THEN "d1" ELSE "d2"
DARUuids == {"d1", "d2"}

Address(uuid, value, address_type) ==
    [uuid |-> uuid, value |-> value, address_type |-> address_type]

\* _get_unit_address on a MO unit: the one address of the type, None when
\* there is none and None (after logging) when there is more than one
_get_unit_address(addresses) ==
    IF Cardinality(addresses) = 1
    THEN Some(CHOOSE a \in addresses : TRUE)
    ELSE None

\* A P-number decision that never looks at the MO address
_update_or_add_pnumber_address_always_new(sd_a, mo_addresses) ==
    IF sd_a = None THEN None
    ELSE Some([uuid |-> None, value |-> sd_a[1], address_type |-> "Pnummer"])

_update_or_add_pnumber_address(sd_a, mo_addresses) ==
    IF sd_a = None THEN None
    ELSE LET mo_a == _get_unit_address(mo_addresses)
         IN IF mo_a = None THEN Some(Address(None, sd_a[1], PNUMBER_ADDR))
            ELSE IF sd_a[1] # mo_a[1].value
                 THEN Some(Address(Some(mo_a[1].uuid), sd_a[1], PNUMBER_ADDR))
                 ELSE None

\* A postal decision that goes on after a failed cleansing
_update_or_add_postal_address_ignoring_failure(ok, sd_a, mo_addresses) ==
    IF sd_a = None THEN None
    ELSE Some([uuid |-> None, value |-> cleanse_single(sd_a[1]),
               address_type |-> "AddressMailUnit"])

_update_or_add_postal_address(ok, sd_a, mo_addresses) ==
    IF sd_a = None THEN None
    ELSE IF ~ok THEN None
    ELSE LET dar_uuid == cleanse_single(sd_a[1])
             mo_a == _get_unit_address(mo_addresses)
         IN IF mo_a = None THEN Some(Address(None, dar_uuid, POSTAL_ADDR))
            ELSE IF dar_uuid # mo_a[1].value
                 THEN Some(Address(Some(mo_a[1].uuid), dar_uuid, POSTAL_ADDR))
                 ELSE None

\* MO's address mutations on the addresses of one unit and type
add_address(addresses, value) ==
    addresses \cup {[uuid |-> Cardinality(addresses) + 1, value |-> value]}
update_address(addresses, uuid, value) ==
    {IF a.uuid = uuid THEN [a EXCEPT !.value = value] ELSE a : a \in addresses}

\* One iteration of the loop of _update_or_add_addresses for the unit at
\* addr_pos.i and the address type addr_pos.phase.  Each unit and type is
\* visited once per call, so the MO unit map read at the start of
\* fix_addresses and MO itself agree on the addresses compared.
UpdateOrAddAddress ==
    /\ addr_pos.phase \in AddressTypes
    /\ addr_pos.i <= Len(AddrUnits)
    /\ LET u == AddrUnits[addr_pos.i]
           t == addr_pos.phase
           addr == IF t = PNUMBER_ADDR
                   THEN _update_or_add_pnumber_address(sd_addr[u][t], mo_addr[u][t])
                   ELSE _update_or_add_postal_address(cleanse_ok[u], sd_addr[u][t],
                                                      mo_addr[u][t])
       IN IF addr = None
          THEN UNCHANGED <<mo_addr, addr_ops, addr_mutations>>
          ELSE IF addr[1].uuid = None
          THEN IF ~dry_run
               THEN /\ mo_addr' = [mo_addr EXCEPT ![u][t] = add_address(@, addr[1].value)]
                    /\ addr_mutations' = Append(addr_mutations,
                           [op |-> "add", unit |-> u, address_type |-> t,
                            value |-> addr[1].value])
                    /\ addr_ops' = Append(addr_ops,
                           [op |-> "add", unit |-> u,
                            address |-> Address(Some(Cardinality(mo_addr[u][t]) + 1),
                                                addr[1].value, t)])
               ELSE /\ addr_ops' = Append(addr_ops,
                           [op |-> "add", unit |-> u, address |-> addr[1]])
                    /\ UNCHANGED <<mo_addr, addr_mutations>>
          ELSE /\ IF ~dry_run
                  THEN /\ mo_addr' = [mo_addr EXCEPT ![u][t] =
                                         update_address(@, addr[1].uuid[1], addr[1].value)]
                       /\ addr_mutations' = Append(addr_mutations,
                              [op |-> "update", unit |-> u, address_type |-> t,
                               value |-> addr[1].value])
                  ELSE UNCHANGED <<mo_addr, addr_mutations>>
               /\ addr_ops' = Append(addr_ops,
                      [op |-> "update", unit |-> u, address |-> addr[1]])
    /\ addr_pos' = [addr_pos EXCEPT !.i = @ + 1]
    /\ UNCHANGED <<sd_addr, cleanse_ok>>
    /\ UNCHANGED <<syncVars, gateVars, treeVars, algVars>>

\* fix_addresses: the P-number pass is exhausted, the postal pass begins
FixAddressesPostal ==
    /\ addr_pos.phase = PNUMBER_ADDR
    /\ addr_pos.i > Len(AddrUnits)
    /\ addr_pos' = [phase |-> POSTAL_ADDR, i |-> 1]
    /\ UNCHANGED <<sd_addr, cleanse_ok, mo_addr, addr_ops, addr_mutations>>
    /\ UNCHANGED <<syncVars, gateVars, treeVars, algVars>>

\* fix_addresses: the postal pass is exhausted, the generator ends
FixAddressesReturn ==
    /\ addr_pos.phase = POSTAL_ADDR
    /\ addr_pos.i > Len(AddrUnits)
    /\ addr_pos' = [phase |-> "done", i |-> 0]
    /\ UNCHANGED <<sd_addr, cleanse_ok, mo_addr, addr_ops, addr_mutations>>
    /\ UNCHANGED <<syncVars, gateVars, treeVars, algVars>>

MOAddresses(values) ==
    {{}} \cup {{[uuid |-> 1, value |-> v]} : v \in values}
         \cup {{[uuid |-> 1, value |-> p[1]], [uuid |-> 2, value |-> p[2]]} :
                  p \in {q \in values \X values : q[1] # q[2]}}

AddrInputs ==
    /\ sd_addr \in [AddrUnitSet -> [AddressTypes -> Option(SDAddrNames)]]
    /\ cleanse_ok \in [AddrUnitSet -> BOOLEAN]
    /\ \E pn \in [AddrUnitSet -> MOAddresses(PNumbers)],
          po \in [AddrUnitSet -> MOAddresses(DARUuids)] :
          mo_addr = [u \in AddrUnitSet |->
                        [t \in AddressTypes |->
                            IF t = PNUMBER_ADDR THEN pn[u] ELSE po[u]]]
    /\ addr_pos = [phase |-> PNUMBER_ADDR, i |-> 1]
    /\ addr_ops = <<>>
    /\ addr_mutations = <<>>

NextAddr == UpdateOrAddAddress \/ FixAddressesPostal \/ FixAddressesReturn

InitAddr ==
    /\ SyncIdle /\ dry_run \in BOOLEAN
    /\ AddrInputs
    /\ GateIdle /\ TreeIdle /\ AlgIdle

SpecAddr == InitAddr /\ [][NextAddr]_vars

\* The unit and address type the next iteration of _update_or_add_addresses
\* is about, and what SD holds for them in the form MO stores it (the P-number
\* itself, the DAR uuid of the postal address)
AddrStepTaken ==
    /\ addr_pos.phase \in AddressTypes
    /\ addr_pos.i <= Len(AddrUnits)
    /\ addr_pos'.i = addr_pos.i + 1
SDValue(u, t) ==
    IF t = PNUMBER_ADDR THEN sd_addr[u][t][1] ELSE cleanse_single(sd_addr[u][t][1])

PostalOps(u) ==
    SelectSeq(addr_ops, LAMBDA o : o.unit = u /\ o.address.address_type = POSTAL_ADDR)

C29_add_only_when_mo_has_none ==
    [][AddrStepTaken =>
          LET u == AddrUnits[addr_pos.i]
              t == addr_pos.phase
          IN /\ (Len(addr_ops') > Len(addr_ops) /\ Last(addr_ops').op = "add") =>
                    mo_addr[u][t] = {}
             /\ mo_addr[u][t] # {} =>
                    Cardinality(mo_addr'[u][t]) <= Cardinality(mo_addr[u][t])]_vars

\* ------------------------------------------------------------- dry runs
\* A dry run of the unit reconciler, or a dry run of address sync
InitDry ==
    /\ dry_run = TRUE
    /\ \/ /\ sd_unit_timeline \in SDUnitTimelines
          /\ mo \in MOPlainStates
          /\ mo_unit_timeline = UnitTimeline(<<>>, <<>>, <<>>, <<>>, <<>>)
          /\ mo_before = mo
          /\ endpoints = <<>>
          /\ k = 0
          /\ sync_pc = "idle"
          /\ run = 1
          /\ mutations = <<>>
          /\ upd = None
          /\ AddrIdle
       \/ /\ SyncIdle
          /\ AddrInputs
    /\ GateIdle /\ TreeIdle /\ AlgIdle

NextDry == NextSync \/ NextAddr

SpecDry == InitDry /\ [][NextDry]_vars

\* C6: in a dry run no mutation reaches MO: sync_ou sends no unit create,
\* update or terminate and address sync sends no address add or update,
\* while address sync still yields its planned operations.
C6_dry_run_sends_no_mutation ==
    dry_run =>
        /\ mutations = <<>>
        /\ addr_mutations = <<>>
        /\ mo = mo_before
        /\ (addr_pos.phase = "done" =>
              \A u \in AddrUnitSet :
                 (sd_addr[u][PNUMBER_ADDR] # None /\ mo_addr[u][PNUMBER_ADDR] = {}) =>
                    \E i \in 1 .. Len(addr_ops) :
                       /\ addr_ops[i].unit = u
                       /\ addr_ops[i].address.address_type = PNUMBER_ADDR)

\* ------------------------- the run gate (sdtoolplus/main.py) and App.execute
RUNNING == "running"
COMPLETED == "completed"
Triggers == 1 .. MaxTriggers
\* The configured institution identifiers, in order
Institutions == <<"AB", "CD">>

AddOrgUnitMutation == "AddOrgUnitMutation"
UpdateOrgUnitMutation == "UpdateOrgUnitMutation"
\* An operation of the stream: the mutation class and whether its unit lies
\* in the subtree of an obsolete unit root
Operations ==
    [mutation : {AddOrgUnitMutation, UpdateOrgUnitMutation}, obsolete : BOOLEAN]
RECURSIVE SeqsUpTo(_, _)
SeqsUpTo(S, n) ==
    IF n = 0 THEN {<<>>}
    ELSE SeqsUpTo(S, n - 1)
            \cup {Append(q, x) : q \in {r \in SeqsUpTo(S, n - 1) : Len(r) = n - 1},
                                 x \in S}

RunRecord(status, by, n) == [status |-> status, by |-> by, executed |-> n]

\* get_status: the status of the latest row of rundb
get_status(db) == Last(db).status

\* A gate that is always open: C1 and C2 depend on the status check
gate_always_open(db) == TRUE
\* The check POST /trigger makes before it starts a run
gate_is_open(db) == get_status(db) # RUNNING

\* rundb left as it is at the start of a run: C3 depends on the RUNNING write
run_db_start_nothing(db, by, dry) == db
\* run_db_start_operations: persist RUNNING unless the run is dry
run_db_start_operations(db, by, dry) ==
    IF dry THEN db ELSE Append(db, RunRecord(RUNNING, by, 0))

\* rundb left as it is at the end of a run
run_db_end_nothing(db, by, dry, n) == db
\* run_db_end_operations: persist COMPLETED unless the run is dry
run_db_end_operations(db, by, dry, n) ==
    IF dry THEN db ELSE Append(db, RunRecord(COMPLETED, by, n))

\* COMPLETED written although the run failed: C4 depends on its absence
run_failed_completed(db, by) == Append(db, RunRecord(COMPLETED, by, 0))
\* background_run when App.execute raises: the exception leaves the function
\* before run_db_end_operations is reached
run_failed(db, by) == db

\* The NY logic never applied
_should_apply_ny_logic_never(s, operation, dry) == FALSE
\* The NY logic applied in dry runs too: C5 depends on the dry_run test
_should_apply_ny_logic_ignoring_dry_run(s, operation, dry) ==
    ~(\/ s.apply_ny_logic = FALSE
      \/ operation.mutation # UpdateOrgUnitMutation
      \/ operation.obsolete)
\* App._should_apply_ny_logic
_should_apply_ny_logic(s, operation, dry) ==
    ~(\/ s.apply_ny_logic = FALSE
      \/ dry
      \/ operation.mutation # UpdateOrgUnitMutation
      \/ operation.obsolete)

NoResponse == [status_code |-> 0, msg |-> ""]
\* A run that stops after the first institution
Position_first_institution_only(inst, op) ==
    IF plan = <<>> \/ op > Len(plan) THEN [inst |-> Len(Institutions) + 1, op |-> 1]
    ELSE [inst |-> inst, op |-> op]
\* The position after operation op of institution inst; inst beyond the last
\* institution when every institution has been executed
Position(inst, op) ==
    IF plan = <<>> THEN [inst |-> Len(Institutions) + 1, op |-> 1]
    ELSE IF op > Len(plan) THEN [inst |-> inst + 1, op |-> 1]
    ELSE [inst |-> inst, op |-> op]

\* POST /trigger while the latest status is RUNNING
TriggerRejected(p) ==
    /\ trig[p].pc = "new"
    /\ ~gate_is_open(rundb)
    /\ \E dry \in BOOLEAN :
          trig' = [trig EXCEPT ![p] =
                      [@ EXCEPT !.pc = "rejected", !.dry = dry,
                                !.resp = [status_code |-> 500,
                                          msg |-> "Previous run did not complete successfully!"]]]
    /\ UNCHANGED <<rundb, plan, settings, apply_calls, emitted, executed>>
    /\ UNCHANGED <<syncVars, addrVars, treeVars, algVars>>

\* POST /trigger while the gate is open: the status is read and RUNNING is
\* written in one serial step, then the run starts
TriggerAccepted(p) ==
    /\ trig[p].pc = "new"
    /\ gate_is_open(rundb)
    /\ \E dry \in BOOLEAN :
          /\ rundb' = run_db_start_operations(rundb, p, dry)
          /\ trig' = [trig EXCEPT ![p] =
                         [@ EXCEPT !.pc = "running", !.dry = dry,
                                   !.inst = Position(1, 1).inst, !.op = 1]]
    /\ UNCHANGED <<plan, settings, apply_calls, emitted, executed>>
    /\ UNCHANGED <<syncVars, addrVars, treeVars, algVars>>

\* One iteration of the loop of App.execute: the executor has executed the
\* mutation (not in a dry run), the NY logic is applied when required, the
\* operation is yielded.
AppExecute(p) ==
    /\ trig[p].pc = "running"
    /\ trig[p].inst <= Len(Institutions)
    /\ LET here == [inst |-> trig[p].inst, op |-> trig[p].op]
           next == Position(trig[p].inst, trig[p].op + 1)
       IN /\ executed' = [executed EXCEPT ![p] =
                             IF trig[p].dry THEN @ ELSE Append(@, here)]
          /\ apply_calls' = [apply_calls EXCEPT ![p] =
                                IF _should_apply_ny_logic(settings, plan[trig[p].op],
                                                          trig[p].dry)
                                THEN Append(@, here) ELSE @]
          /\ emitted' = [emitted EXCEPT ![p] = Append(@, here)]
          /\ trig' = [trig EXCEPT ![p] = [@ EXCEPT !.inst = next.inst, !.op = next.op]]
    /\ UNCHANGED <<rundb, plan, settings>>
    /\ UNCHANGED <<syncVars, addrVars, treeVars, algVars>>

\* A mutation fails: the exception ends the run
AppExecuteFails(p) ==
    /\ trig[p].pc = "running"
    /\ trig[p].inst <= Len(Institutions)
    /\ ~trig[p].dry
    /\ rundb' = run_failed(rundb, p)
    /\ trig' = [trig EXCEPT ![p] = [@ EXCEPT !.pc = "aborted"]]
    /\ UNCHANGED <<plan, settings, apply_calls, emitted, executed>>
    /\ UNCHANGED <<syncVars, addrVars, treeVars, algVars>>

\* _call_apply_ny_logic answers with a non-2xx status: the mutation has been
\* executed, the POST has been made, the error is logged with the uuid of the
\* unit and raised again; the exception leaves the loop of App.execute, so
\* the operation is not yielded and the generator is never resumed
AppApplyFails(p) ==
    /\ trig[p].pc = "running"
    /\ trig[p].inst <= Len(Institutions)
    /\ _should_apply_ny_logic(settings, plan[trig[p].op], trig[p].dry)
    /\ LET here == [inst |-> trig[p].inst, op |-> trig[p].op]
       IN /\ executed' = [executed EXCEPT ![p] = Append(@, here)]
          /\ apply_calls' = [apply_calls EXCEPT ![p] = Append(@, here)]
    /\ rundb' = run_failed(rundb, p)
    /\ trig' = [trig EXCEPT ![p] = [@ EXCEPT !.pc = "apply_failed"]]
    /\ UNCHANGED <<plan, settings, emitted>>
    /\ UNCHANGED <<syncVars, addrVars, treeVars, algVars>>

\* background_run after the last institution: COMPLETED is written
BackgroundRunEnd(p) ==
    /\ trig[p].pc = "running"
    /\ trig[p].inst > Len(Institutions)
    /\ rundb' = run_db_end_operations(rundb, p, trig[p].dry, Len(emitted[p]))
    /\ trig' = [trig EXCEPT ![p] =
                   [@ EXCEPT !.pc = "done", !.resp = [status_code |-> 200, msg |-> ""]]]
    /\ UNCHANGED <<plan, settings, apply_calls, emitted, executed>>
    /\ UNCHANGED <<syncVars, addrVars, treeVars, algVars>>

InitGate ==
    /\ rundb \in {<<RunRecord(COMPLETED, 0, 0)>>, <<RunRecord(RUNNING, 0, 0)>>}
    /\ trig = [p \in Triggers |->
                 [pc |-> "new", dry |-> FALSE, inst |-> 0, op |-> 0,
                  resp |-> NoResponse]]
    /\ plan \in SeqsUpTo(Operations, MaxOps)
    /\ settings \in [apply_ny_logic : BOOLEAN]
    /\ apply_calls = [p \in Triggers |-> <<>>]
    /\ emitted = [p \in Triggers |-> <<>>]
    /\ executed = [p \in Triggers |-> <<>>]
    /\ SyncIdle /\ dry_run = FALSE
    /\ AddrIdle /\ TreeIdle /\ AlgIdle

NextGate ==
    \E p \in Triggers :
        \/ TriggerRejected(p)
        \/ TriggerAccepted(p)
        \/ AppExecute(p)
        \/ AppExecuteFails(p)
        \/ AppApplyFails(p)
        \/ BackgroundRunEnd(p)

SpecGate == InitGate /\ [][NextGate]_vars

\* The rows of rundb a trigger wrote, in order
RecordsBy(p) == SelectSeq(rundb, LAMBDA r : r.by = p)
Rejection == [status_code |-> 500, msg |-> "Previous run did not complete successfully!"]

\* C1: a POST /trigger that arrives while the latest RunRecord is RUNNING is
\* answered with HTTP 500 and 'Previous run did not complete successfully!',
\* starts no execution and writes no RunRecord: rundb is unchanged.
C1_trigger_rejected_while_running ==
    [][\A p \in Triggers :
          (trig[p].pc = "new" /\ trig'[p].pc # "new" /\ get_status(rundb) = RUNNING) =>
              /\ trig'[p].pc = "rejected"
              /\ trig'[p].resp = Rejection
              /\ rundb' = rundb
              /\ executed' = executed /\ emitted' = emitted
              /\ apply_calls' = apply_calls]_vars
C1_witness ==
    \E p \in Triggers :
        /\ trig[p].pc = "rejected" /\ ~trig[p].dry
        /\ trig[p].resp = Rejection
        /\ emitted[p] = <<>> /\ RecordsBy(p) = <<>>

C3_running_then_completed ==
    \A p \in Triggers :
        /\ (trig[p].pc = "running" /\ ~trig[p].dry) =>
              /\ RecordsBy(p) = <<RunRecord(RUNNING, p, 0)>>
              /\ Last(rundb).by = p
        /\ (trig[p].pc = "done" /\ ~trig[p].dry) =>
              /\ RecordsBy(p) = <<RunRecord(RUNNING, p, 0),
                                  RunRecord(COMPLETED, p, Len(Institutions) * Len(plan))>>
              /\ executed[p] = emitted[p]
              /\ \E i \in 1 .. Len(rundb) - 1 :
                    rundb[i].by = p /\ rundb[i + 1].by = p
C3_witness ==
    \E p \in Triggers :
        /\ trig[p].pc = "done" /\ ~trig[p].dry
        /\ Len(plan) = MaxOps
        /\ Len(RecordsBy(p)) = 2

\* C4: COMPLETED is written only by a run that exits successfully; when a
\* mutation fails no COMPLETED row is written, the latest status stays
\* RUNNING and every later trigger is rejected.
C4_completed_only_on_success ==
    [][/\ \A i \in 1 .. Len(rundb) :
             (rundb[i].status = COMPLETED /\ rundb[i].by \in Triggers) =>
                 trig[rundb[i].by].pc = "done"
       /\ (\E p \in Triggers : trig[p].pc = "aborted") =>
             /\ get_status(rundb) = RUNNING
             /\ get_status(rundb') = RUNNING
             /\ \A q \in Triggers :
                   (trig[q].pc = "new" /\ trig'[q].pc # "new") =>
                       trig'[q].pc = "rejected"]_vars
C4_witness ==
    \E p, q \in Triggers :
        /\ trig[p].pc = "aborted"
        /\ trig[q].pc = "rejected"
        /\ rundb = <<RunRecord(COMPLETED, 0, 0), RunRecord(RUNNING, p, 0)>>
        /\ executed[p] # <<>>

\* C5: a dry-run trigger writes no RunRecord, neither RUNNING nor COMPLETED,
\* and makes no apply-NY-logic call, whatever operations are planned.
C5_dry_run_writes_nothing ==
    \A p \in Triggers :
        (trig[p].dry /\ trig[p].pc # "new") =>
            /\ RecordsBy(p) = <<>>
            /\ apply_calls[p] = <<>>
            /\ executed[p] = <<>>
C5_witness ==
    \E p \in Triggers :
        /\ trig[p].dry /\ trig[p].pc = "done"
        /\ settings.apply_ny_logic
        /\ \E i \in 1 .. Len(plan) :
              plan[i] = [mutation |-> UpdateOrgUnitMutation, obsolete |-> FALSE]
        /\ Len(emitted[p]) = Len(Institutions) * Len(plan)

\* The operation at position e of the run of p is an update of a unit outside
\* the obsolete subtree, executed with apply_ny_logic enabled
NeedsApply(p, e) ==
    /\ settings.apply_ny_logic
    /\ ~trig[p].dry
    /\ plan[e.op].mutation = UpdateOrgUnitMutation
    /\ ~plan[e.op].obsolete

OutsideObsolete(positions) == SelectSeq(positions, LAMBDA e : ~plan[e.op].obsolete)

\* C11: with apply_ny_logic enabled and outside a dry run, the apply-NY-logic
\* side channel is called exactly once for each successfully executed Add
\* and each Update of a unit outside the obsolete subtree, in the order of
\* execution, and for no unit inside that subtree.
C11_apply_called_for_every_add_and_update ==
    \A p \in Triggers :
        (settings.apply_ny_logic /\ ~trig[p].dry /\ trig[p].pc # "new") =>
            apply_calls[p] = OutsideObsolete(executed[p])

\* C12: when the apply-NY-logic call for one unit fails, the mutations of
\* the units that follow it in the operation stream of the same executor are
\* still executed.
C12_apply_failure_does_not_stop_the_stream ==
    \A p \in Triggers :
        trig[p].pc = "apply_failed" =>
            \A op \in 1 .. Len(plan) :
                \E i \in 1 .. Len(executed[p]) :
                    executed[p][i] = [inst |-> trig[p].inst, op |-> op]

\* The operations of every institution, institution by institution in the
\* configured order, each operation once
AllInstitutionsInOrder ==
    [j \in 1 .. Len(Institutions) * Len(plan) |->
        [inst |-> ((j - 1) \div Len(plan)) + 1, op |-> ((j - 1) % Len(plan)) + 1]]

\* C13: one run executes the configured institutions one after another in the
\* configured order, each exactly once and with the dry_run flag of the
\* trigger, all under one gate: at any moment the operations yielded are a
\* prefix of the operations of all institutions in order; a finished run has
\* yielded all of them, has executed all of them unless it is a dry run, and
\* has written one RUNNING and one COMPLETED row unless it is a dry run.
C13_institutions_in_order_once ==
    \A p \in Triggers :
        /\ Len(emitted[p]) <= Len(AllInstitutionsInOrder)
        /\ emitted[p] = SubSeq(AllInstitutionsInOrder, 1, Len(emitted[p]))
        /\ trig[p].pc = "done" =>
              /\ emitted[p] = AllInstitutionsInOrder
              /\ executed[p] = IF trig[p].dry THEN <<>> ELSE AllInstitutionsInOrder
              /\ Len(RecordsBy(p)) = IF trig[p].dry THEN 0 ELSE 2
C13_witness ==
    \E p \in Triggers :
        /\ trig[p].pc = "done" /\ ~trig[p].dry
        /\ Len(plan) = MaxOps
        /\ Len(emitted[p]) = Len(Institutions) * MaxOps
        /\ emitted[p][MaxOps + 1] = [inst |-> 2, op |-> 1]

\* ------------------------------- tree differ (sdtoolplus/diff_org_trees.py)
Units == 1 .. MaxUnits
Root == 0
OrgUnitNode(parent, name) == [parent |-> parent, name |-> name]

\* A tree: unit -> None | Some(OrgUnitNode); every unit hangs under the root
RECURSIVE UnderRoot(_, _, _)
UnderRoot(tree, u, n) ==
    IF u = Root THEN TRUE
    ELSE IF n = 0 \/ tree[u] = None THEN FALSE
    ELSE UnderRoot(tree, tree[u][1].parent, n - 1)
Trees(names) ==
    {t \in [Units -> Option({OrgUnitNode(p, n) : p \in {Root} \cup Units, n \in names})] :
        \A u \in Units : t[u] # None => UnderRoot(t, u, MaxUnits)}

Children(tree, u) == {c \in Units : tree[c] # None /\ tree[c][1].parent = u}

\* The units below the siblings cs, children before their parent
RECURSIVE PostOrder(_, _)
PostOrder(tree, cs) ==
    IF cs = <<>> THEN <<>>
    ELSE PostOrder(tree, SortedSeq(Children(tree, cs[1]))) \o <<cs[1]>>
            \o PostOrder(tree, Tail(cs))
\* The units below the siblings cs depth-first, pre-order: a unit before
\* its children
RECURSIVE PreOrder(_, _)
PreOrder(tree, cs) ==
    IF cs = <<>> THEN <<>>
    ELSE <<cs[1]>> \o PreOrder(tree, SortedSeq(Children(tree, cs[1])))
            \o PreOrder(tree, Tail(cs))

AddUnit(u, node) == [op |-> "AddUnit", unit |-> u, parent |-> node.parent, name |-> node.name]
UpdateUnit(u, node) == [op |-> "UpdateUnit", unit |-> u, parent |-> node.parent, name |-> node.name]

\* The operation stream: over the SD tree in pre-order, AddUnit for a unit MO
\* does not hold, UpdateUnit for a unit whose name or parent differs
OrgTreeDiff(mo_t, sd_t) ==
    LET order == PreOrder(sd_t, SortedSeq(Children(sd_t, Root)))
        changed == SelectSeq(order, LAMBDA u : mo_t[u] # sd_t[u])
    IN [i \in 1 .. Len(changed) |->
          IF mo_t[changed[i]] = None
          THEN AddUnit(changed[i], sd_t[changed[i]][1])
          ELSE UpdateUnit(changed[i], sd_t[changed[i]][1])]

\* The executor executes the next operation of the stream against MO
TreeDiffExecute ==
    /\ tree_pos < Len(tree_ops)
    /\ LET o == tree_ops[tree_pos + 1]
       IN mo_tree' = [mo_tree EXCEPT ![o.unit] = Some(OrgUnitNode(o.parent, o.name))]
    /\ tree_pos' = tree_pos + 1
    /\ UNCHANGED <<sd_tree, mo_tree_before, tree_ops>>
    /\ UNCHANGED <<syncVars, addrVars, gateVars, algVars>>

\* The next trigger builds the diff again from the SD tree and MO as it is
TreeDiffAgain ==
    /\ tree_pos = Len(tree_ops)
    /\ tree_ops # <<>>
    /\ tree_ops' = OrgTreeDiff(mo_tree, sd_tree)
    /\ mo_tree_before' = mo_tree
    /\ tree_pos' = 0
    /\ UNCHANGED <<sd_tree, mo_tree>>
    /\ UNCHANGED <<syncVars, addrVars, gateVars, algVars>>

InitTree ==
    /\ sd_tree \in Trees(UnitNames)
    /\ mo_tree \in Trees({"n1"})
    /\ mo_tree_before = mo_tree
    /\ tree_ops = OrgTreeDiff(mo_tree, sd_tree)
    /\ tree_pos = 0
    /\ SyncIdle /\ dry_run = FALSE
    /\ AddrIdle /\ GateIdle /\ AlgIdle

NextTree == TreeDiffExecute \/ TreeDiffAgain

SpecTree == InitTree /\ [][NextTree]_vars

\* C8: in the operation stream of the tree differ every AddUnit(P) comes
\* before every other operation that names P as its parent, be it the
\* AddUnit of a child of P or an UpdateUnit that moves a unit under P.
C8_add_parent_first ==
    \A i, j \in 1 .. Len(tree_ops) :
        (tree_ops[i].op = "AddUnit" /\ tree_ops[j].parent = tree_ops[i].unit) => i < j
C8_witness ==
    \E i, j, l \in 1 .. Len(tree_ops) :
        /\ tree_ops[i].op = "AddUnit"
        /\ tree_ops[j].op = "UpdateUnit" /\ tree_ops[j].parent = tree_ops[i].unit
        /\ tree_ops[l].op = "AddUnit" /\ tree_ops[l].parent = tree_ops[i].unit
        /\ tree_pos = Len(tree_ops)

\* ----------------------- the interval/timeline algebra (sdtoolplus/models.py)
\* Instants on the UTC time line; a datetime is an instant together with its
\* tzinfo: None (a naive datetime), a fixed offset (datetime.timezone) or a
\* ZoneInfo
Instants == 0 .. MaxInstant
NAIVE == "None"
ZoneInfos == {"ZoneInfo(Europe/London)", "ZoneInfo(Europe/Copenhagen)"}
TzInfos == {NAIVE, "timezone.utc"} \cup ZoneInfos
DateTimes == [t : Instants, tzinfo : TzInfos]
IntervalValues == {"v1", "v2"}

\* Interval.ensure_timezones, the only validator of Interval: TRUE when it
\* returns the values, FALSE when it raises ValueError
ensure_timezones(values) ==
    values.start.tzinfo \in ZoneInfos /\ values.end.tzinfo \in ZoneInfos

\* Interval(start=..., end=..., value=...)
IntervalConstruct ==
    /\ tl_called = "none"
    /\ tl_values # <<>>
    /\ tl_called' = "Interval"
    /\ tl_ret' = IF ensure_timezones(tl_values)
                 THEN [error |-> "", interval |-> Some(tl_values)]
                 ELSE [error |-> "ValueError", interval |-> None]
    /\ UNCHANGED <<tl_values, tl_intervals, tl_them, tl_timestamp>>
    /\ UNCHANGED <<syncVars, addrVars, gateVars, treeVars>>

InitInterval ==
    /\ tl_values \in [start : DateTimes, end : DateTimes, value : IntervalValues]
    /\ tl_intervals = <<>>
    /\ tl_them = <<>>
    /\ tl_timestamp = 0
    /\ tl_called = "none"
    /\ tl_ret = <<>>
    /\ SyncIdle /\ dry_run = FALSE
    /\ AddrIdle /\ GateIdle /\ TreeIdle

NextInterval == IntervalConstruct

SpecInterval == InitInterval /\ [][NextInterval]_vars

\* C15: every Interval that can be constructed has end > start; an Interval
\* whose end equals or precedes its start is rejected.
C15_interval_end_after_start ==
    tl_called = "Interval" =>
        /\ tl_ret.error = "" => tl_values.end.t > tl_values.start.t
        /\ tl_values.end.t <= tl_values.start.t => tl_ret.error = "ValueError"

\* C16: constructing an Interval fails when start or end is naive and when
\* start and end carry different time zones: an accepted Interval has a
\* start and an end that carry the same zone.
C16_interval_zones ==
    tl_called = "Interval" =>
        /\ (tl_values.start.tzinfo = NAIVE \/ tl_values.end.tzinfo = NAIVE) =>
               tl_ret.error = "ValueError"
        /\ tl_values.start.tzinfo # tl_values.end.tzinfo =>
               tl_ret.error = "ValueError"

\* ---------------------------------------------- Timeline(...) and entity_at
\* The intervals a Timeline is built from: constructed Intervals in one zone,
\* which may be empty (see ensure_timezones)
ConstructedIntervals ==
    {i \in [start : Instants, end : Instants, value : IntervalValues] :
        i.start <= i.end}
IntervalTuples == UNION {[1 .. n -> ConstructedIntervals] : n \in 0 .. MaxLen}

\* Timeline(intervals=...): the validators run, ValueError when one fails
TimelineConstruct ==
    /\ tl_called = "none"
    /\ tl_called' = "Timeline"
    /\ tl_ret' = IF Timeline(tl_intervals)
                 THEN [error |-> "", entity |-> <<>>]
                 ELSE [error |-> "ValueError", entity |-> <<>>]
    /\ UNCHANGED <<tl_values, tl_intervals, tl_them, tl_timestamp>>
    /\ UNCHANGED <<syncVars, addrVars, gateVars, treeVars>>

\* timeline.entity_at(timestamp) on a constructed Timeline: only(...) of the
\* intervals that cover the timestamp, NoValueError when there is none,
\* ValueError (from only) when there are several
EntityAt ==
    /\ tl_called = "Timeline"
    /\ tl_ret.error = ""
    /\ \E timestamp \in Instants :
          LET entity == entity_at(tl_intervals, timestamp)
          IN /\ tl_timestamp' = timestamp
             /\ tl_ret' = [error |-> IF NoValueError(entity) THEN "NoValueError"
                                     ELSE IF Len(entity) > 1 THEN "ValueError"
                                     ELSE "",
                           entity |-> entity]
    /\ tl_called' = "entity_at"
    /\ UNCHANGED <<tl_values, tl_intervals, tl_them>>
    /\ UNCHANGED <<syncVars, addrVars, gateVars, treeVars>>

InitTimeline ==
    /\ tl_values = <<>>
    /\ tl_intervals \in IntervalTuples
    /\ tl_them = <<>>
    /\ tl_timestamp = 0
    /\ tl_called = "none"
    /\ tl_ret = <<>>
    /\ SyncIdle /\ dry_run = FALSE
    /\ AddrIdle /\ GateIdle /\ TreeIdle

NextTimeline == TimelineConstruct \/ EntityAt

SpecTimeline == InitTimeline /\ [][NextTimeline]_vars

\* T2, T3, T4 of a sequence of intervals
StartsStrictlyIncreasing(v) ==
    \A i \in 1 .. Len(v) - 1 : v[i].start < v[i + 1].start
NoOverlap(v) ==
    \A i \in 1 .. Len(v) - 1 : v[i].end <= v[i + 1].start
NoTouchingEqualValues(v) ==
    \A i \in 1 .. Len(v) - 1 : v[i].end = v[i + 1].start => v[i].value # v[i + 1].value

\* C14: every Timeline that is constructed has strictly increasing starts,
\* i.end <= j.start for consecutive intervals i, j, and no two touching
\* consecutive intervals of equal value; a sequence that violates one of the
\* three is rejected.
C14_timeline_is_well_formed ==
    tl_called = "Timeline" =>
        (tl_ret.error = "" <=> /\ StartsStrictlyIncreasing(tl_intervals)
                               /\ NoOverlap(tl_intervals)
                               /\ NoTouchingEqualValues(tl_intervals))

Combine ==
    /\ tl_called = "none"
    /\ tl_called' = "combine_intervals"
    /\ tl_ret' = [error |-> "", intervals |-> combine_intervals(tl_intervals)]
    /\ UNCHANGED <<tl_values, tl_intervals, tl_them, tl_timestamp>>
    /\ UNCHANGED <<syncVars, addrVars, gateVars, treeVars>>

\* combine_intervals called on what combine_intervals returned
CombineAgain ==
    /\ tl_called = "combine_intervals"
    /\ tl_called' = "combine_intervals again"
    /\ tl_them' = tl_ret.intervals
    /\ tl_ret' = [error |-> "", intervals |-> combine_intervals(tl_ret.intervals)]
    /\ UNCHANGED <<tl_values, tl_intervals, tl_timestamp>>
    /\ UNCHANGED <<syncVars, addrVars, gateVars, treeVars>>

InitCombine ==
    /\ tl_values = <<>>
    /\ tl_intervals \in IntervalTuples
    /\ tl_them = <<>>
    /\ tl_timestamp = 0
    /\ tl_called = "none"
    /\ tl_ret = <<>>
    /\ SyncIdle /\ dry_run = FALSE
    /\ AddrIdle /\ GateIdle /\ TreeIdle

NextCombine == Combine \/ CombineAgain

SpecCombine == InitCombine /\ [][NextCombine]_vars

\* Interval i of v and its successor touch and have the same value
Touching(v, i) == v[i].end = v[i + 1].start /\ v[i].value = v[i + 1].value
\* The maximal runs of consecutive touching intervals of equal value, each
\* replaced by (first.start, last.end, value)
TouchingRunFirsts(v) == {i \in 1 .. Len(v) : i = 1 \/ ~Touching(v, i - 1)}
TouchingRunLast(v, i) == Min({j \in i .. Len(v) : j = Len(v) \/ ~Touching(v, j)})
MergedTouchingRuns(v) ==
    LET firsts == SortedSeq(TouchingRunFirsts(v))
    IN [n \in 1 .. Len(firsts) |->
           [start |-> v[firsts[n]].start,
            end |-> v[TouchingRunLast(v, firsts[n])].end,
            value |-> v[firsts[n]].value]]
SortedByStart(v) == \A i \in 1 .. Len(v) - 1 : v[i].start <= v[i + 1].start
EndAfterStart(v) == \A i \in 1 .. Len(v) : v[i].start < v[i].end
\* What C17 says of the result of combine_intervals on the input v
CombinedAsMergedRuns(v, result) ==
    /\ result = MergedTouchingRuns(v)
    /\ StartsStrictlyIncreasing(result)
    /\ NoOverlap(result)
    /\ NoTouchingEqualValues(result)
    /\ Timeline(result)

C18_combine_idempotent ==
    tl_called = "combine_intervals again" => tl_ret.intervals = tl_them
C18_witness ==
    /\ tl_called = "combine_intervals again"
    /\ Len(tl_intervals) = MaxLen
    /\ Len(tl_them) = 1
    /\ tl_ret.intervals = tl_them

\* ------------------------------------------------------------ Timeline.diff
\* Timelines as the specification defines them: intervals with end > start
\* that pass the validators of Timeline
WellFormedTimelines ==
    {v \in UNION {[1 .. n -> {i \in ConstructedIntervals : i.start < i.end}] :
                     n \in 0 .. MaxLen} : Timeline(v)}

\* The start and end instants of the intervals of a timeline
TimelineEndpoints(v) ==
    {v[i].start : i \in 1 .. Len(v)} \cup {v[i].end : i \in 1 .. Len(v)}

\* A diff step that emits the value of self wherever self has one
diff_interval_ignoring_them(self, them, a, b) ==
    LET va == entity_at(self, a)
    IN IF NoValueError(va) THEN <<>>
       ELSE <<[start |-> a, end |-> b, value |-> Some(va[1].value)]>>

\* Step 3 of diff for the adjacent endpoints a, b: the interval emitted, if
\* any; the value None says that the interval should be removed
diff_interval(self, them, a, b) ==
    LET va == entity_at(self, a)
        vb == entity_at(them, a)
    IN IF ~NoValueError(va) /\ NoValueError(vb)
       THEN <<Interval(a, b, Some(va[1].value))>>
       ELSE IF NoValueError(va) /\ ~NoValueError(vb)
       THEN <<Interval(a, b, None)>>
       ELSE IF ~NoValueError(va) /\ ~NoValueError(vb) /\ va[1].value # vb[1].value
       THEN <<Interval(a, b, Some(va[1].value))>>
       ELSE <<>>

\* Steps 2 and 3 over the first n adjacent pairs of the sorted endpoints E
RECURSIVE diff_raw(_, _, _, _)
diff_raw(self, them, E, n) ==
    IF n <= 0 THEN <<>>
    ELSE diff_raw(self, them, E, n - 1) \o diff_interval(self, them, E[n], E[n + 1])

\* self.diff(them)
diff(self, them) ==
    LET E == SortedSeq(TimelineEndpoints(self) \cup TimelineEndpoints(them))
    IN combine_intervals(diff_raw(self, them, E, Len(E) - 1))

\* us.diff(them)
Diff ==
    /\ tl_called = "none"
    /\ tl_called' = "diff"
    /\ tl_ret' = [error |-> "", intervals |-> diff(tl_intervals, tl_them)]
    /\ UNCHANGED <<tl_values, tl_intervals, tl_them, tl_timestamp>>
    /\ UNCHANGED <<syncVars, addrVars, gateVars, treeVars>>

InitDiff ==
    /\ tl_values = <<>>
    /\ tl_intervals \in WellFormedTimelines
    /\ tl_them \in WellFormedTimelines
    /\ tl_timestamp = 0
    /\ tl_called = "none"
    /\ tl_ret = <<>>
    /\ SyncIdle /\ dry_run = FALSE
    /\ AddrIdle /\ GateIdle /\ TreeIdle

NextDiff == Diff

SpecDiff == InitDiff /\ [][NextDiff]_vars

\* What the diff d of us against them must hold at the instant t
DiffAt(us, them, d, t) ==
    LET va == entity_at(us, t)
        vb == entity_at(them, t)
        vd == entity_at(d, t)
    IN IF va # <<>> /\ (vb = <<>> \/ va[1].value # vb[1].value)
       THEN Len(vd) = 1 /\ vd[1].value = Some(va[1].value)
       ELSE IF va = <<>> /\ vb # <<>>
       THEN Len(vd) = 1 /\ vd[1].value = None
       ELSE vd = <<>>

\* C20: at every instant, us.diff(them) holds the value of us where us has a
\* value and them has none or another one, holds NONE where only them has a
\* value, and has no interval where both agree or neither has a value; the
\* result is combined and satisfies T2-T4; diff(x, x) is empty and
\* diff(x, empty) is x.
C20_diff ==
    tl_called = "diff" =>
        LET d == tl_ret.intervals
        IN /\ \A t \in Instants : DiffAt(tl_intervals, tl_them, d, t)
           /\ combine_intervals(d) = d
           /\ EndAfterStart(d) /\ StartsStrictlyIncreasing(d)
           /\ NoOverlap(d) /\ NoTouchingEqualValues(d)
           /\ tl_intervals = tl_them => d = <<>>
           /\ tl_them = <<>> =>
                 d = [i \in 1 .. Len(tl_intervals) |->
                         [start |-> tl_intervals[i].start,
                          end |-> tl_intervals[i].end,
                          value |-> Some(tl_intervals[i].value)]]
C20_witness ==
    /\ tl_called = "diff"
    /\ tl_intervals = <<[start |-> 0, end |-> 2, value |-> "v1"]>>
    /\ tl_them = <<[start |-> 1, end |-> 2, value |-> "v1"],
                   [start |-> 2, end |-> 3, value |-> "v2"]>>
    /\ tl_ret.intervals = <<[start |-> 0, end |-> 1, value |-> Some("v1")],
                            [start |-> 2, end |-> 3, value |-> None]>>

\* ------------------------------------- UnitTimeline.equal_at, on its own
\* self.equal_at(timestamp, other), self a timeline SD reports and other a
\* timeline read from MO
EqualAt ==
    /\ tl_called = "none"
    /\ \E timestamp \in Days :
          /\ tl_timestamp' = timestamp
          /\ tl_ret' = [error |-> "",
                        equal |-> equal_at(tl_intervals, timestamp, tl_them)]
    /\ tl_called' = "equal_at"
    /\ UNCHANGED <<tl_values, tl_intervals, tl_them>>
    /\ UNCHANGED <<syncVars, addrVars, gateVars, treeVars>>

InitEqualAt ==
    /\ tl_values = <<>>
    /\ tl_intervals \in SDUnitTimelines
    /\ tl_them \in {get_ou_timeline(m) : m \in MOPlainStates}
    /\ tl_timestamp = 0
    /\ tl_called = "none"
    /\ tl_ret = <<>>
    /\ SyncIdle /\ dry_run = FALSE
    /\ AddrIdle /\ GateIdle /\ TreeIdle

NextEqualAt == EqualAt

SpecEqualAt == InitEqualAt /\ [][NextEqualAt]_vars

\* The values the members of a unit timeline hold at t
ValuesAt(self, t) ==
    [active |-> entity_at(self.active, t)[1].value,
     name |-> entity_at(self.name, t)[1].value,
     unit_id |-> entity_at(self.unit_id, t)[1].value,
     unit_level |-> entity_at(self.unit_level, t)[1].value,
     parent |-> entity_at(self.parent, t)[1].value]

\* C24: equal_at(t, other) is true exactly when both sides have a value at t
\* or both lack one and, when present, all member values at t are equal,
\* wherever the intervals covering t start and end.
C24_equal_at_compares_values ==
    tl_called = "equal_at" =>
        (tl_ret.equal <=>
            /\ has_value(tl_intervals, tl_timestamp) = has_value(tl_them, tl_timestamp)
            /\ has_value(tl_intervals, tl_timestamp) =>
                  ValuesAt(tl_intervals, tl_timestamp) = ValuesAt(tl_them, tl_timestamp))

=============================================================================
